---- MODULE Spec2Model ----
(***************************************************************************)
(* Model of the prox reverse-proxy framework: the defaultProxy registry    *)
(* (global middlewares, routes, backends), the route and backend builders, *)
(* buildHandler with the net/http ServeMux it fills, and request dispatch  *)
(* through the middleware chain down to a backend.                         *)
(*                                                                         *)
(* Strings (patterns, request paths) are sequences of tokens, "/" being    *)
(* one token, so that prefix tests and lengths are computed, not assumed.  *)
(***************************************************************************)
EXTENDS Integers, Sequences, FiniteSets, TLC

VARIABLES
    middlewares,   \* defaultProxy.middlewares
    routes,        \* defaultProxy.routes
    backends,      \* defaultProxy.backends
    server,        \* defaultProxy.server
    rb,            \* the live defaultRouteBuilder
    bb,            \* the live defaultBackendBuilder
    heap,          \* the *Server objects allocated by Build
    cursor,        \* the round-robin load balancer's cursor
    last,          \* the last call made on the proxy and what it returned
    mu,            \* defaultProxy.mu: the writer holding it and the readers
    pc,            \* where each goroutine stands in the call it is making
    loc,           \* the local variables of each goroutine's call
    httpServers,   \* the http.Server objects allocated by ListenAndServe
    streaks,       \* per *Server, the failures in a row the proxy was shown
    arrays         \* the backing arrays of the route builders' middleware slices

vars == <<middlewares, routes, backends, server, rb, bb, heap, cursor, last,
          mu, pc, loc, httpServers, streaks, arrays>>

----------------------------------------------------------------------------
(* Bounds of the model *)

MaxRoutes == 3
MaxMw == 2
MaxMwRoutes == 1
MaxRegRoutes == 2
MaxServers == 2
MaxHeap == 2
MaxBackendRoutes == 1
MaxLockRoutes == 2
MaxLockMw == 1
MaxGlobalMw == 2
MaxGlobalRoutes == 2
MaxHttpServers == 2
MaxHealthServers == 2
MaxHealthHeap == 2
MaxMonitorServers == 2
MaxMonitorHeap == 2
MaxMemberServers == 3
MaxMemberHeap == 5
MaxSliceMw == 4
MaxSliceArrays == 3
MaxSliceRoutes == 2
MaxSliceServers == 2
MaxSliceHeap == 2
MaxServedRoutes == 2
MaxServedMw == 1
MaxServeServers == 2
MaxServeHeap == 2
MaxFrameRoutes == 2
MaxFrameMw == 1
MaxFrameServers == 2
MaxFrameHeap == 2
MaxRegistryServers == 2
MaxRegistryHeap == 2

\* The number of failures in a row after which a server is to be unhealthy.
FailureThreshold == 3

----------------------------------------------------------------------------
(* Values *)

Nil == [kind |-> "nil"]

\* The goroutines that call the proxy concurrently.
Threads == {"g1", "g2"}

PRoot == <<"/">>
PApi == <<"/", "api">>
PApiSl == <<"/", "api", "/">>
PUsers == <<"/", "api", "/", "users">>
PUsersSl == <<"/", "api", "/", "users", "/">>
PUser123 == <<"/", "api", "/", "users", "/", "123">>
PStatus == <<"/", "api", "/", "status">>
POther == <<"/", "other">>

Patterns == {PRoot, PApiSl, PUsers, PUsersSl}
Paths == {PApi, PUsers, PUser123, POther}

TokLen(t) ==
    CASE t = "/" -> 1
      [] t = "api" -> 3
      [] t = "users" -> 5
      [] t = "123" -> 3
      [] t = "status" -> 6
      [] t = "other" -> 5

RECURSIVE StrLen(_)
StrLen(s) == IF s = <<>> THEN 0 ELSE TokLen(Head(s)) + StrLen(Tail(s))

HasPrefix(s, p) == Len(p) <= Len(s) /\ SubSeq(s, 1, Len(p)) = p

EndsWithSlash(s) == s # <<>> /\ s[Len(s)] = "/"

\* A custom Backend implementation handed to To, and a custom http.Handler
\* handed to ToHandler.
CustomBackend(id) == [kind |-> "custom", id |-> id]
CustomHandler(id) == [kind |-> "handler", id |-> id]

\* A custom http.Handler whose ServeHTTP panics.
PanickingHandler(id) == [kind |-> "panicking", id |-> id]

----------------------------------------------------------------------------
(* net/http ServeMux as buildHandler uses it *)

NewServeMux == [m |-> <<>>, es |-> <<>>]

\* appendSorted: es is kept sorted from the longest pattern to the shortest.
AppendSortedRegistrationOrder(es, e) == Append(es, e)

AppendSorted(es, e) ==
    LET shorter == {i \in 1..Len(es) : StrLen(es[i].pattern) < StrLen(e.pattern)}
        i == IF shorter = {} THEN Len(es) + 1
             ELSE CHOOSE k \in shorter : \A j \in shorter : k <= j
    IN  SubSeq(es, 1, i - 1) \o <<e>> \o SubSeq(es, i, Len(es))

\* mux.Handle: panics on an empty pattern, a nil handler and a pattern that
\* is already registered.
MuxHandlePanics(mux, pattern, handler) ==
    \/ pattern = <<>>
    \/ handler = Nil
    \/ pattern \in DOMAIN mux.m

MuxHandle(mux, pattern, handler) ==
    LET e == [pattern |-> pattern, h |-> handler]
    IN  [m  |-> [p \in DOMAIN mux.m \cup {pattern} |->
                    IF p = pattern THEN e ELSE mux.m[p]],
         es |-> IF EndsWithSlash(pattern) THEN AppendSorted(mux.es, e)
                ELSE mux.es]

MuxMatchPrefixSwapped(mux, path) ==
    IF path \in DOMAIN mux.m THEN mux.m[path]
    ELSE LET hits == {i \in 1..Len(mux.es) : HasPrefix(mux.es[i].pattern, path)}
         IN  IF hits = {} THEN [pattern |-> <<>>, h |-> Nil]
             ELSE mux.es[CHOOSE k \in hits : \A j \in hits : k <= j]

\* mux.match: an exact entry first, then the first (longest) subtree
\* pattern that is a prefix of the path.
MuxMatch(mux, path) ==
    IF path \in DOMAIN mux.m THEN mux.m[path]
    ELSE LET hits == {i \in 1..Len(mux.es) : HasPrefix(path, mux.es[i].pattern)}
         IN  IF hits = {} THEN [pattern |-> <<>>, h |-> Nil]
             ELSE mux.es[CHOOSE k \in hits : \A j \in hits : k <= j]

\* mux.shouldRedirect: path itself is not registered but path + "/" is.
MuxShouldRedirect(mux, path) ==
    /\ path \notin DOMAIN mux.m
    /\ path # <<>>
    /\ (path \o <<"/">>) \in DOMAIN mux.m
    /\ ~EndsWithSlash(path)

\* mux.Handler: what the mux does with a request for a (clean) path.
MuxDispatch(mux, path) ==
    IF MuxShouldRedirect(mux, path)
    THEN [kind |-> "redirect", pattern |-> path \o <<"/">>, h |-> Nil]
    ELSE LET e == MuxMatch(mux, path)
         IN  IF e.h = Nil THEN [kind |-> "notfound", pattern |-> <<>>, h |-> Nil]
             ELSE [kind |-> "route", pattern |-> e.pattern, h |-> e.h]

----------------------------------------------------------------------------
(* buildHandler *)

\* A Middleware applied to a handler.
Wrap(mw, h) == [kind |-> "mw", mw |-> mw, next |-> h]

\* for i := len(mws) - 1; i >= 0; i-- { handler = mws[i](handler) }
RECURSIVE ApplyMiddlewares(_, _)
ApplyMiddlewares(mws, h) ==
    IF mws = <<>> THEN h
    ELSE ApplyMiddlewares(SubSeq(mws, 1, Len(mws) - 1), Wrap(mws[Len(mws)], h))

RouteTarget(route) ==
    IF route.handler = Nil /\ route.backend # Nil THEN route.backend
    ELSE route.handler

RouteChainGlobalsInside(route, globals) ==
    ApplyMiddlewares(route.middlewares, ApplyMiddlewares(globals, RouteTarget(route)))

RouteChainWithoutGlobals(route, globals) ==
    ApplyMiddlewares(route.middlewares, RouteTarget(route))

RouteChain(route, globals) ==
    ApplyMiddlewares(globals, ApplyMiddlewares(route.middlewares, RouteTarget(route)))

\* The loop of buildHandler over p.routes, from route i on.
RECURSIVE BuildFrom(_, _, _, _)
BuildFrom(mux, rs, globals, i) ==
    IF i > Len(rs) THEN [panic |-> FALSE, mux |-> mux]
    ELSE LET h == RouteChain(rs[i], globals)
         IN  IF MuxHandlePanics(mux, rs[i].pattern, h)
             THEN [panic |-> TRUE, mux |-> mux]
             ELSE BuildFrom(MuxHandle(mux, rs[i].pattern, h), rs, globals, i + 1)

buildHandler == BuildFrom(NewServeMux, routes, middlewares, 1)

----------------------------------------------------------------------------
(* URLs *)

\* url.Parse on the server strings the model uses: "http://s1" and
\* "http://s2" are absolute URLs, as is "http://down", the URL of a server
\* that answers nothing; "s3" parses as a URL with only a path, ":bad" is
\* rejected (missing protocol scheme).
UrlParse(raw) ==
    CASE raw = "http://s1" -> [err |-> FALSE, url |-> [scheme |-> "http", host |-> "s1", path |-> ""]]
      [] raw = "http://s2" -> [err |-> FALSE, url |-> [scheme |-> "http", host |-> "s2", path |-> ""]]
      [] raw = "http://down" -> [err |-> FALSE, url |-> [scheme |-> "http", host |-> "down", path |-> ""]]
      [] raw = "s3"        -> [err |-> FALSE, url |-> [scheme |-> "", host |-> "", path |-> "s3"]]
      [] raw = ":bad"      -> [err |-> TRUE, url |-> Nil]

\* URL.String on the URLs UrlParse yields: scheme "://" host path, or the
\* path alone when the URL has no scheme and no host.
UrlString(url) ==
    IF url.scheme = "" THEN url.path
    ELSE url.scheme \o "://" \o url.host \o url.path

\* What httputil.ReverseProxy answers when it forwards to a URL: the
\* downstream's answer, or 502 when the URL has no usable scheme or the
\* server does not answer.
ForwardStatus(url) == IF url.scheme = "http" /\ url.host # "down" THEN 200 ELSE 502

----------------------------------------------------------------------------
(* Backends *)

SimpleBackendKeepingBalancer(name, url) ==
    [kind |-> "simple", name |-> name, url |-> url, loadBalancer |-> bb.loadBalancer]

SimpleBackend(name, url) == [kind |-> "simple", name |-> name, url |-> url]

\* createSimpleBackend
createSimpleBackend(name, urlStr) ==
    LET r == UrlParse(urlStr)
    IN  IF r.err THEN [panic |-> TRUE, backend |-> Nil]
        ELSE [panic |-> FALSE, backend |-> SimpleBackend(name, r.url)]

\* LoadBalancer.Select of the round-robin strategy: an error on an empty
\* candidate list, else the candidate under the cursor, which then advances
\* modulo the candidate count.
Select(candidates, cur) ==
    IF candidates = <<>> THEN [err |-> TRUE, server |-> 0, cursor |-> cur]
    ELSE [err |-> FALSE,
          server |-> candidates[(cur % Len(candidates)) + 1],
          cursor |-> (cur + 1) % Len(candidates)]

\* A LoadBalancer of the caller whose Select returns an error.
FailingBalancer == [kind |-> "lb", id |-> "Failing"]

\* b.loadBalancer.Select(b.servers, r), dispatched on the implementation.
LoadBalancerSelect(lb, candidates, cur) ==
    IF lb = FailingBalancer THEN [err |-> TRUE, server |-> 0, cursor |-> cur]
    ELSE Select(candidates, cur)

\* A ServeHTTP call that did nothing yet. selects counts the Select calls,
\* selectErr tells that Select returned an error, forwards lists the servers
\* a reverse proxy was sent to.
NoServe ==
    [status |-> 0, panic |-> FALSE, candidates |-> <<>>, selected |-> 0, cursor |-> cursor,
     selects |-> 0, selectErr |-> FALSE, forwards |-> <<>>]

ClusterServeHTTPRetrying(b) ==
    LET r == LoadBalancerSelect(b.loadBalancer, b.servers, cursor)
        again == LoadBalancerSelect(b.loadBalancer, b.servers, r.cursor)
    IN  IF b.loadBalancer = Nil
        THEN [NoServe EXCEPT !.panic = TRUE]
        ELSE IF r.err
        THEN [NoServe EXCEPT !.status = 503, !.candidates = b.servers,
                             !.selects = 1, !.selectErr = TRUE]
        ELSE IF ForwardStatus(heap[r.server].URL) = 502
        THEN [status |-> ForwardStatus(heap[again.server].URL), panic |-> FALSE,
              candidates |-> b.servers, selected |-> again.server, cursor |-> again.cursor,
              selects |-> 2, selectErr |-> FALSE, forwards |-> <<r.server, again.server>>]
        ELSE [status |-> ForwardStatus(heap[r.server].URL), panic |-> FALSE,
              candidates |-> b.servers, selected |-> r.server, cursor |-> r.cursor,
              selects |-> 1, selectErr |-> FALSE, forwards |-> <<r.server>>]

\* clusterBackend.ServeHTTP: servers are references into heap.
ClusterServeHTTP(b) ==
    LET r == LoadBalancerSelect(b.loadBalancer, b.servers, cursor)
    IN  IF b.loadBalancer = Nil
        THEN [NoServe EXCEPT !.panic = TRUE]
        ELSE IF r.err
        THEN [NoServe EXCEPT !.status = 503, !.candidates = b.servers,
                             !.selects = 1, !.selectErr = TRUE]
        ELSE [status |-> ForwardStatus(heap[r.server].URL), panic |-> FALSE,
              candidates |-> b.servers, selected |-> r.server, cursor |-> r.cursor,
              selects |-> 1, selectErr |-> FALSE, forwards |-> <<r.server>>]

\* ServeHTTP of the innermost handler of a chain.
TargetServeHTTP(t) ==
    CASE t.kind = "custom"  -> [NoServe EXCEPT !.status = 200]
      [] t.kind = "handler" -> [NoServe EXCEPT !.status = 200]
      [] t.kind = "panicking" -> [NoServe EXCEPT !.panic = TRUE]
      [] t.kind = "simple"  -> [NoServe EXCEPT !.status = ForwardStatus(t.url)]
      [] t.kind = "cluster" -> ClusterServeHTTP(t)
      [] t.kind = "nil"     -> [NoServe EXCEPT !.panic = TRUE]

TargetId(t) ==
    CASE t.kind = "custom"  -> t.id
      [] t.kind = "handler" -> t.id
      [] t.kind = "panicking" -> t.id
      [] t.kind = "simple"  -> t.name
      [] t.kind = "cluster" -> t.name
      [] t.kind = "nil"     -> "nil"

----------------------------------------------------------------------------
(* Serving a request through a chain *)

RECURSIVE ChainTarget(_)
ChainTarget(h) == IF h.kind = "mw" THEN ChainTarget(h.next) ELSE h

Ev(ev, id) == [ev |-> ev, id |-> id]

\* The calls a chain makes: every middleware is entered, calls the next
\* handler and is left when that returns; a panic unwinds without leaving.
RECURSIVE ChainEvents(_, _)
ChainEvents(h, panics) ==
    IF h.kind = "mw"
    THEN <<Ev("enter", h.mw)>> \o ChainEvents(h.next, panics)
            \o (IF panics THEN <<>> ELSE <<Ev("exit", h.mw)>>)
    ELSE <<Ev("target", TargetId(h))>>

----------------------------------------------------------------------------
(* State after New() *)

Init ==
    /\ middlewares = <<>>
    /\ routes = <<>>
    /\ backends = <<>>
    /\ server = Nil
    /\ rb = Nil
    /\ bb = Nil
    /\ heap = <<>>
    /\ cursor = 0
    /\ last = [op |-> "New", panic |-> FALSE]
    /\ mu = [w |-> "none", r |-> {}]
    /\ pc = [t \in Threads |-> "idle"]
    /\ loc = [t \in Threads |-> Nil]
    /\ httpServers = <<>>
    /\ streaks = <<>>
    /\ arrays = <<>>

Returned(op) == [op |-> op, panic |-> FALSE]
Panicked(op) == [op |-> op, panic |-> TRUE]

----------------------------------------------------------------------------
(* Proxy *)

\* defaultProxy.Use
ProxyUse(mws) ==
    /\ middlewares' = middlewares \o mws
    /\ last' = Returned("Proxy.Use")
    /\ UNCHANGED <<routes, backends, server, rb, bb, heap, cursor, mu, pc, loc, httpServers, streaks, arrays>>

ProxyRouteRegistering(pattern) ==
    /\ rb' = [kind |-> "rb", pattern |-> pattern, middlewares |-> <<>>]
    /\ routes' = Append(routes, [pattern |-> pattern, backend |-> Nil,
                                 middlewares |-> <<>>, handler |-> Nil])
    /\ last' = Returned("Proxy.Route")
    /\ UNCHANGED <<middlewares, backends, server, bb, heap, cursor, mu, pc, loc, httpServers, streaks, arrays>>

\* defaultProxy.Route
ProxyRoute(pattern) ==
    /\ rb' = [kind |-> "rb", pattern |-> pattern, middlewares |-> <<>>]
    /\ last' = Returned("Proxy.Route")
    /\ UNCHANGED <<middlewares, routes, backends, server, bb, heap, cursor, mu, pc, loc, httpServers, streaks, arrays>>

\* defaultProxy.ListenAndServe, up to the point where the server serves:
\* a panic of buildHandler leaves p.server as it was.
ListenAndServe ==
    LET b == buildHandler
    IN  /\ IF b.panic
           THEN /\ last' = Panicked("ListenAndServe")
                /\ UNCHANGED server
           ELSE /\ last' = Returned("ListenAndServe")
                /\ server' = [kind |-> "server", handler |-> b.mux,
                              globals |-> middlewares, routes |-> routes]
        /\ UNCHANGED <<middlewares, routes, backends, rb, bb, heap, cursor, mu, pc, loc, httpServers, streaks, arrays>>

----------------------------------------------------------------------------
(* RouteBuilder *)

\* defaultRouteBuilder.Use
RouteBuilderUse(mws) ==
    /\ rb # Nil
    /\ rb' = [rb EXCEPT !.middlewares = @ \o mws]
    /\ last' = Returned("RouteBuilder.Use")
    /\ UNCHANGED <<middlewares, routes, backends, server, bb, heap, cursor, mu, pc, loc, httpServers, streaks, arrays>>

NewRoute(backend, handler) ==
    [pattern |-> rb.pattern, backend |-> backend,
     middlewares |-> rb.middlewares, handler |-> handler]

\* defaultRouteBuilder.To
To(backend) ==
    /\ rb # Nil
    /\ routes' = Append(routes, NewRoute(backend, Nil))
    /\ last' = Returned("To")
    /\ UNCHANGED <<middlewares, backends, server, rb, bb, heap, cursor, mu, pc, loc, httpServers, streaks, arrays>>

\* defaultRouteBuilder.ToHandler
ToHandler(handler) ==
    /\ rb # Nil
    /\ routes' = Append(routes, NewRoute(Nil, handler))
    /\ last' = Returned("ToHandler")
    /\ UNCHANGED <<middlewares, backends, server, rb, bb, heap, cursor, mu, pc, loc, httpServers, streaks, arrays>>

ToURLStoring(urlStr) ==
    /\ rb # Nil
    /\ LET c == createSimpleBackend("", urlStr)
       IN  IF c.panic
           THEN /\ last' = [op |-> "ToURL", panic |-> TRUE, url |-> urlStr]
                /\ UNCHANGED <<routes, backends>>
           ELSE /\ routes' = Append(routes, NewRoute(c.backend, Nil))
                /\ backends' = [n \in DOMAIN backends \cup {""} |->
                                   IF n = "" THEN c.backend ELSE backends[n]]
                /\ last' = [op |-> "ToURL", panic |-> FALSE, url |-> urlStr]
    /\ UNCHANGED <<middlewares, server, rb, bb, heap, cursor, mu, pc, loc, httpServers, streaks, arrays>>

\* defaultRouteBuilder.ToURL
ToURL(urlStr) ==
    /\ rb # Nil
    /\ LET c == createSimpleBackend("", urlStr)
       IN  IF c.panic
           THEN /\ last' = [op |-> "ToURL", panic |-> TRUE, url |-> urlStr]
                /\ UNCHANGED routes
           ELSE /\ routes' = Append(routes, NewRoute(c.backend, Nil))
                /\ last' = [op |-> "ToURL", panic |-> FALSE, url |-> urlStr]
    /\ UNCHANGED <<middlewares, backends, server, rb, bb, heap, cursor, mu, pc, loc, httpServers, streaks, arrays>>

----------------------------------------------------------------------------
(* BackendBuilder *)

RoundRobin == [kind |-> "lb", id |-> "RoundRobin"]

\* defaultProxy.Backend
ProxyBackend(name) ==
    /\ bb' = [kind |-> "bb", name |-> name, servers |-> <<>>, loadBalancer |-> Nil,
              healthPath |-> "", healthInterval |-> 0]
    /\ last' = Returned("Proxy.Backend")
    /\ UNCHANGED <<middlewares, routes, backends, server, rb, heap, cursor, mu, pc, loc, httpServers, streaks, arrays>>

\* defaultBackendBuilder.AddServers
AddServers(urls) ==
    /\ bb # Nil
    /\ bb' = [bb EXCEPT !.servers = @ \o urls]
    /\ last' = Returned("AddServers")
    /\ UNCHANGED <<middlewares, routes, backends, server, rb, heap, cursor, mu, pc, loc, httpServers, streaks, arrays>>

\* defaultBackendBuilder.WithLoadBalancer
WithLoadBalancer(lb) ==
    /\ bb # Nil
    /\ bb' = [bb EXCEPT !.loadBalancer = lb]
    /\ last' = Returned("WithLoadBalancer")
    /\ UNCHANGED <<middlewares, routes, backends, server, rb, heap, cursor, mu, pc, loc, httpServers, streaks, arrays>>

\* defaultBackendBuilder.WithHealthCheck
WithHealthCheck(path, interval) ==
    /\ bb # Nil
    /\ bb' = [bb EXCEPT !.healthPath = path, !.healthInterval = interval]
    /\ last' = Returned("WithHealthCheck")
    /\ UNCHANGED <<middlewares, routes, backends, server, rb, heap, cursor, mu, pc, loc, httpServers, streaks, arrays>>

\* The url.Parse loop of Build: the parsed URLs, or the first error.
ParseServersSkippingBad(urls) ==
    [err |-> FALSE,
     urls |-> LET good == SelectSeq(urls, LAMBDA u : ~UrlParse(u).err)
              IN  [i \in 1..Len(good) |-> UrlParse(good[i]).url]]

ParseServersReversed(urls) ==
    IF \E i \in 1..Len(urls) : UrlParse(urls[i]).err
    THEN [err |-> TRUE, urls |-> <<>>]
    ELSE [err |-> FALSE,
          urls |-> [i \in 1..Len(urls) |-> UrlParse(urls[Len(urls) + 1 - i]).url]]

ParseServers(urls) ==
    IF \E i \in 1..Len(urls) : UrlParse(urls[i]).err
    THEN [err |-> TRUE, urls |-> <<>>]
    ELSE [err |-> FALSE, urls |-> [i \in 1..Len(urls) |-> UrlParse(urls[i]).url]]

StoreBackendFirstWins(name, backend) ==
    [n \in DOMAIN backends \cup {name} |->
        IF n \in DOMAIN backends THEN backends[n] ELSE backend]

\* bb.proxy.backends[bb.name] = backend
StoreBackend(name, backend) ==
    [n \in DOMAIN backends \cup {name} |-> IF n = name THEN backend ELSE backends[n]]

NewServerUnhealthy(u) == [URL |-> u, Healthy |-> FALSE]

\* &Server{URL: u, Healthy: true}
NewServer(u) == [URL |-> u, Healthy |-> TRUE]

\* defaultBackendBuilder.Build
Build ==
    /\ bb # Nil
    /\ LET parsed == ParseServers(bb.servers)
           n == Len(parsed.urls)
           simple == SimpleBackend(bb.name, parsed.urls[1])
           cluster == [kind |-> "cluster", name |-> bb.name,
                       servers |-> [i \in 1..n |-> Len(heap) + i],
                       loadBalancer |-> bb.loadBalancer,
                       healthCheck |-> IF bb.healthPath # ""
                                       THEN [kind |-> "healthChecker", path |-> bb.healthPath,
                                             interval |-> bb.healthInterval]
                                       ELSE Nil]
       IN  IF Len(bb.servers) = 0 \/ parsed.err
           THEN /\ last' = [op |-> "Build", panic |-> TRUE, backend |-> Nil]
                /\ UNCHANGED <<backends, heap>>
           ELSE IF n = 1
           THEN /\ backends' = StoreBackend(bb.name, simple)
                /\ last' = [op |-> "Build", panic |-> FALSE, backend |-> simple]
                /\ UNCHANGED heap
           ELSE /\ heap' = heap \o [i \in 1..n |-> NewServer(parsed.urls[i])]
                /\ backends' = StoreBackend(bb.name, cluster)
                /\ last' = [op |-> "Build", panic |-> FALSE, backend |-> cluster]
    /\ UNCHANGED <<middlewares, routes, server, rb, bb, cursor, mu, pc, loc, httpServers, streaks, arrays>>

\* Code holding a *Server (a load balancer is handed b.servers) writes its
\* exported Healthy field.
SetHealthy(s, healthy) ==
    /\ s \in 1..Len(heap)
    /\ heap[s].Healthy # healthy
    /\ heap' = [heap EXCEPT ![s].Healthy = healthy]
    /\ last' = Returned("Server.Healthy")
    /\ UNCHANGED <<middlewares, routes, backends, server, rb, bb, cursor, mu, pc, loc, httpServers, streaks, arrays>>

----------------------------------------------------------------------------
(* Backend.HealthStatus: a map from URL strings to HealthStatus values;     *)
(* LastCheck, the time of the call, is left out                             *)

\* status[key] = entry
MapPut(status, key, entry) ==
    [k \in DOMAIN status \cup {key} |-> IF k = key THEN entry ELSE status[k]]

SimpleHealthStatusUnhealthy(b) ==
    MapPut(<<>>, UrlString(b.url), [Healthy |-> FALSE, Error |-> Nil])

\* simpleBackend.HealthStatus
SimpleHealthStatus(b) ==
    MapPut(<<>>, UrlString(b.url), [Healthy |-> TRUE, Error |-> Nil])

\* The loop of clusterBackend.HealthStatus over b.servers, from server i on.
RECURSIVE ClusterStatusFrom(_, _, _)
ClusterStatusFrom(b, i, status) ==
    IF i > Len(b.servers) THEN status
    ELSE ClusterStatusFrom(b, i + 1,
            MapPut(status, UrlString(heap[b.servers[i]].URL),
                   [Healthy |-> heap[b.servers[i]].Healthy, Error |-> Nil]))

\* clusterBackend.HealthStatus
ClusterHealthStatus(b) == ClusterStatusFrom(b, 1, <<>>)

\* A call of HealthStatus on a backend Build returned.
HealthStatus(b) ==
    /\ b.kind \in {"simple", "cluster"}
    /\ last' = [op |-> "HealthStatus", panic |-> FALSE, backend |-> b,
                status |-> IF b.kind = "simple" THEN SimpleHealthStatus(b)
                           ELSE ClusterHealthStatus(b)]
    /\ UNCHANGED <<middlewares, routes, backends, server, rb, bb, heap, cursor, mu, pc, loc, httpServers, streaks, arrays>>

----------------------------------------------------------------------------
(* What the proxy was shown of each server: the forwardings that failed in  *)
(* a row, and the health-check intervals in a row at which the server did  *)
(* not answer. The proxy keeps no such record; this is the observer's.      *)

Streak(s) == IF s \in DOMAIN streaks THEN streaks[s] ELSE [passive |-> 0, active |-> 0]

Bump(n) == IF n > FailureThreshold THEN n ELSE n + 1

\* The streaks after a forwarding to server s that was answered with status.
AfterForward(s, status) ==
    IF status >= 500
    THEN MapPut(streaks, s, [Streak(s) EXCEPT !.passive = Bump(@)])
    ELSE IF s \in DOMAIN streaks THEN [streaks EXCEPT ![s].passive = 0]
    ELSE streaks

\* The servers of the built cluster backends that have a health check.
CheckedServers ==
    UNION { {backends[n].servers[i] : i \in 1..Len(backends[n].servers)} :
            n \in {m \in DOMAIN backends : /\ backends[m].kind = "cluster"
                                           /\ backends[m].healthCheck # Nil} }

\* An interval of the health check passes at which server s would answer the
\* check (ok) or not: healthChecker has no logic, nothing probes the server
\* and nothing is written.
HealthCheckDue(s, ok) ==
    /\ s \in CheckedServers
    /\ streaks' = IF ~ok THEN MapPut(streaks, s, [Streak(s) EXCEPT !.active = Bump(@)])
                  ELSE IF s \in DOMAIN streaks THEN [streaks EXCEPT ![s].active = 0]
                  ELSE streaks
    /\ streaks' # streaks
    /\ last' = Returned("healthChecker")
    /\ UNCHANGED <<middlewares, routes, backends, server, rb, bb, heap, cursor, mu, pc, loc, httpServers, arrays>>

----------------------------------------------------------------------------
(* A request served by the running server *)

ServedHandlerRebuilt == buildHandler.mux

\* The Handler of p.server: the mux buildHandler returned to ListenAndServe.
ServedHandler == server.handler

Request(path) ==
    /\ server # Nil
    /\ LET d == MuxDispatch(ServedHandler, path)
           out == IF d.kind = "route" THEN TargetServeHTTP(ChainTarget(d.h)) ELSE NoServe
       IN  /\ last' = [op |-> "Request", path |-> path, kind |-> d.kind,
                       pattern |-> d.pattern,
                       target |-> IF d.kind = "route" THEN ChainTarget(d.h) ELSE Nil,
                       panic |-> out.panic,
                       status |-> CASE d.kind = "redirect" -> 301
                                    [] d.kind = "notfound" -> 404
                                    [] d.kind = "route" -> out.status,
                       events |-> IF d.kind = "route" THEN ChainEvents(d.h, out.panic)
                                  ELSE <<>>,
                       candidates |-> out.candidates,
                       selected |-> out.selected,
                       selects |-> out.selects,
                       selectErr |-> out.selectErr,
                       forwards |-> out.forwards]
           /\ cursor' = out.cursor
           /\ streaks' = IF out.selected = 0 THEN streaks
                         ELSE AfterForward(out.selected, out.status)
    /\ UNCHANGED <<middlewares, routes, backends, server, rb, bb, heap, mu, pc, loc, httpServers, arrays>>

----------------------------------------------------------------------------
(* Dispatch: routes to custom backends under exact and subtree patterns *)

Next ==
    \/ \E p \in Patterns : ProxyRoute(p)
    \/ rb # Nil /\ Len(routes) < MaxRoutes
          /\ \E b \in {CustomBackend("X"), CustomBackend("Y")} : To(b)
    \/ ListenAndServe
    \/ \E path \in Paths : Request(path)

Spec == Init /\ [][Next]_vars

----------------------------------------------------------------------------
(* Registration: the three ways of finishing a route, patterns without a    *)
(* trailing slash                                                           *)

NextReg ==
    \/ \E p \in {PApi, PUsers} : ProxyRoute(p)
    \/ Len(routes) < MaxRegRoutes
          /\ \E b \in {CustomBackend("X"), CustomBackend("Y")} : To(b)
    \/ Len(routes) < MaxRegRoutes /\ ToHandler(CustomHandler("H"))
    \/ Len(routes) < MaxRegRoutes /\ \E u \in {"http://s1", ":bad"} : ToURL(u)
    \/ ListenAndServe
    \/ \E path \in {PApi, PUser123, PStatus} : Request(path)

SpecReg == Init /\ [][NextReg]_vars

----------------------------------------------------------------------------
(* Middleware composition: global and route middlewares around one route *)

NextMw ==
    \/ Len(middlewares) < MaxMw /\ \E m \in {"A", "B"} : ProxyUse(<<m>>)
    \/ ProxyRoute(PApi)
    \/ rb # Nil /\ Len(rb.middlewares) < MaxMw /\ \E m \in {"C", "D"} : RouteBuilderUse(<<m>>)
    \/ Len(routes) < MaxMwRoutes /\ ToHandler(CustomHandler("H"))
    \/ ListenAndServe
    \/ Request(PApi)

SpecMw == Init /\ [][NextMw]_vars

----------------------------------------------------------------------------
(* Building backends: the builder, Build, ToURL and the two registries *)

BuiltBackends == {backends[n] : n \in DOMAIN backends}

NextBuild ==
    \/ ProxyBackend("api")
    \/ bb # Nil /\ Len(bb.servers) < MaxServers
          /\ \E u \in {"http://s1", "http://s2", ":bad"} : AddServers(<<u>>)
    \/ WithLoadBalancer(RoundRobin)
    \/ bb # Nil /\ Len(heap) + Len(bb.servers) <= MaxHeap /\ Build
    \/ ProxyRoute(PApi)
    \/ Len(routes) < MaxBackendRoutes /\ \E b \in BuiltBackends : To(b)
    \/ Len(routes) < MaxBackendRoutes /\ \E u \in {"http://s1", ":bad"} : ToURL(u)

SpecBuild == Init /\ [][NextBuild]_vars

----------------------------------------------------------------------------
(* Serving through cluster backends whose servers change health *)

NextCluster ==
    \/ ProxyBackend("api")
    \/ bb # Nil /\ Len(bb.servers) < MaxServers
          /\ \E u \in {"http://s1", "http://s2"} : AddServers(<<u>>)
    \/ WithLoadBalancer(RoundRobin)
    \/ bb # Nil /\ Len(heap) + Len(bb.servers) <= MaxHeap /\ Build
    \/ ProxyRoute(PApi)
    \/ Len(routes) < MaxBackendRoutes /\ \E b \in BuiltBackends : To(b)
    \/ \E s \in 1..Len(heap) : \E h \in BOOLEAN : SetHealthy(s, h)
    \/ ListenAndServe
    \/ Request(PApi)

SpecCluster == Init /\ [][NextCluster]_vars

----------------------------------------------------------------------------
(* Goroutines: the registration calls and buildHandler, one lock operation  *)
(* or one access to the registry a step                                     *)

Goto(t, label) == pc' = [pc EXCEPT ![t] = label]

SeqFrame == <<rb, bb, heap, cursor, last, httpServers, streaks, arrays>>

ToFirstStepUnlocked == "to_append"

\* To and ToHandler take p.mu.Lock() before they touch p.routes.
ToFirstStep == "to_lock"

\* To / ToHandler: route := &Route{...}, built from the caller's builder.
StartTo(t, pattern, mws, handler) ==
    /\ pc[t] = "idle"
    /\ loc' = [loc EXCEPT ![t] = [kind |-> "to",
                  route |-> [pattern |-> pattern, backend |-> Nil,
                             middlewares |-> mws, handler |-> handler]]]
    /\ Goto(t, ToFirstStep)
    /\ UNCHANGED <<middlewares, routes, backends, server, mu, SeqFrame>>

\* Proxy.Use: entered, about to lock.
StartUse(t, mws) ==
    /\ pc[t] = "idle"
    /\ loc' = [loc EXCEPT ![t] = [kind |-> "use", mws |-> mws]]
    /\ Goto(t, "use_lock")
    /\ UNCHANGED <<middlewares, routes, backends, server, mu, SeqFrame>>

\* Build of a one-server backend: backend := &simpleBackend{...}
StartBuild(t, name, urlStr) ==
    /\ pc[t] = "idle"
    /\ ~UrlParse(urlStr).err
    /\ loc' = [loc EXCEPT ![t] = [kind |-> "build", name |-> name,
                  backend |-> SimpleBackend(name, UrlParse(urlStr).url)]]
    /\ Goto(t, "build_lock")
    /\ UNCHANGED <<middlewares, routes, backends, server, mu, SeqFrame>>

\* ListenAndServe calling buildHandler: mux := http.NewServeMux()
StartListenAndServe(t) ==
    /\ pc[t] = "idle"
    /\ loc' = [loc EXCEPT ![t] = [kind |-> "bh", mux |-> NewServeMux, rs |-> <<>>,
                  globals |-> <<>>, i |-> 1, panic |-> FALSE]]
    /\ Goto(t, "bh_rlock")
    /\ UNCHANGED <<middlewares, routes, backends, server, mu, SeqFrame>>

\* p.mu.Lock()
MuLock(t) ==
    /\ pc[t] \in {"to_lock", "use_lock", "build_lock"}
    /\ mu.w = "none"
    /\ mu.r = {}
    /\ mu' = [mu EXCEPT !.w = t]
    /\ Goto(t, CASE pc[t] = "to_lock" -> "to_append"
                 [] pc[t] = "use_lock" -> "use_append"
                 [] pc[t] = "build_lock" -> "build_store")
    /\ UNCHANGED <<middlewares, routes, backends, server, loc, SeqFrame>>

\* p.mu.Unlock()
MuUnlock(t) ==
    /\ pc[t] \in {"to_unlock", "use_unlock", "build_unlock"}
    /\ mu' = [mu EXCEPT !.w = "none"]
    /\ loc' = [loc EXCEPT ![t] = Nil]
    /\ Goto(t, "idle")
    /\ UNCHANGED <<middlewares, routes, backends, server, SeqFrame>>

\* p.mu.RLock()
MuRLock(t) ==
    /\ pc[t] = "bh_rlock"
    /\ mu.w = "none"
    /\ mu' = [mu EXCEPT !.r = @ \cup {t}]
    /\ Goto(t, "bh_range")
    /\ UNCHANGED <<middlewares, routes, backends, server, loc, SeqFrame>>

\* The deferred p.mu.RUnlock(), on return and on a panic of mux.Handle.
MuRUnlock(t) ==
    /\ pc[t] = "bh_runlock"
    /\ mu' = [mu EXCEPT !.r = @ \ {t}]
    /\ IF loc[t].panic
       THEN loc' = [loc EXCEPT ![t] = Nil] /\ Goto(t, "idle")
       ELSE Goto(t, "ls_assign") /\ UNCHANGED loc
    /\ UNCHANGED <<middlewares, routes, backends, server, SeqFrame>>

\* rb.proxy.routes = append(rb.proxy.routes, route)
ToAppend(t) ==
    /\ pc[t] = "to_append"
    /\ routes' = Append(routes, loc[t].route)
    /\ Goto(t, "to_unlock")
    /\ UNCHANGED <<middlewares, backends, server, mu, loc, SeqFrame>>

\* p.middlewares = append(p.middlewares, middlewares...)
UseAppend(t) ==
    /\ pc[t] = "use_append"
    /\ middlewares' = middlewares \o loc[t].mws
    /\ Goto(t, "use_unlock")
    /\ UNCHANGED <<routes, backends, server, mu, loc, SeqFrame>>

\* bb.proxy.backends[bb.name] = backend
BuildStore(t) ==
    /\ pc[t] = "build_store"
    /\ backends' = StoreBackend(loc[t].name, loc[t].backend)
    /\ Goto(t, "build_unlock")
    /\ UNCHANGED <<middlewares, routes, server, mu, loc, SeqFrame>>

\* for _, route := range p.routes: the slice is read once, here.
BhRange(t) ==
    /\ pc[t] = "bh_range"
    /\ loc' = [loc EXCEPT ![t].rs = routes, ![t].globals = middlewares]
    /\ Goto(t, "bh_loop")
    /\ UNCHANGED <<middlewares, routes, backends, server, mu, SeqFrame>>

\* One iteration of the loop: the chain of route i, then mux.Handle.
BhIterate(t) ==
    /\ pc[t] = "bh_loop"
    /\ LET l == loc[t]
       IN  IF l.i > Len(l.rs)
           THEN Goto(t, "bh_runlock") /\ UNCHANGED loc
           ELSE LET h == RouteChain(l.rs[l.i], middlewares)
                IN  IF MuxHandlePanics(l.mux, l.rs[l.i].pattern, h)
                    THEN /\ loc' = [loc EXCEPT ![t].panic = TRUE]
                         /\ Goto(t, "bh_runlock")
                    ELSE /\ loc' = [loc EXCEPT ![t].mux = MuxHandle(l.mux, l.rs[l.i].pattern, h),
                                               ![t].i = l.i + 1]
                         /\ UNCHANGED pc
    /\ UNCHANGED <<middlewares, routes, backends, server, mu, SeqFrame>>

\* p.server = &http.Server{Handler: ...}
ServerAssign(t) ==
    /\ pc[t] = "ls_assign"
    /\ server' = [kind |-> "server", handler |-> loc[t].mux,
                  globals |-> loc[t].globals, routes |-> loc[t].rs]
    /\ loc' = [loc EXCEPT ![t] = Nil]
    /\ Goto(t, "idle")
    /\ UNCHANGED <<middlewares, routes, backends, mu, SeqFrame>>

NextLock ==
    \E t \in Threads :
        \/ Len(routes) < MaxLockRoutes
              /\ \E p \in {PApi, PUsersSl} : \E mws \in {<<>>, <<"C">>} :
                    StartTo(t, p, mws, CustomHandler("H"))
        \/ Len(middlewares) < MaxLockMw /\ StartUse(t, <<"A">>)
        \/ StartBuild(t, "api", "http://s1")
        \/ StartListenAndServe(t)
        \/ MuLock(t)
        \/ MuUnlock(t)
        \/ MuRLock(t)
        \/ MuRUnlock(t)
        \/ ToAppend(t)
        \/ UseAppend(t)
        \/ BuildStore(t)
        \/ BhRange(t)
        \/ BhIterate(t)
        \/ ServerAssign(t)

SpecLock == Init /\ [][NextLock]_vars

----------------------------------------------------------------------------
(* Global middlewares added before and after routes are registered: "A" is  *)
(* the middleware handed to Use while no route exists, "B" the one handed   *)
(* to Use once a route has been registered. Handler H2 panics.              *)

NextGlobal ==
    \/ routes = <<>> /\ Len(middlewares) < MaxGlobalMw /\ ProxyUse(<<"A">>)
    \/ routes # <<>> /\ Len(middlewares) < MaxGlobalMw /\ ProxyUse(<<"B">>)
    \/ \E p \in {PApi, PUsers} : ProxyRoute(p)
    \/ rb # Nil /\ rb.middlewares = <<>> /\ RouteBuilderUse(<<"C">>)
    \/ Len(routes) < MaxGlobalRoutes
          /\ \E h \in {CustomHandler("H1"), PanickingHandler("H2")} : ToHandler(h)
    \/ ListenAndServe
    \/ \E path \in {PApi, PUsers} : Request(path)

SpecGlobal == Init /\ [][NextGlobal]_vars

----------------------------------------------------------------------------
(* ListenAndServe and Shutdown called from several goroutines: p.server is  *)
(* read and written without a lock, one access a step                       *)

Addrs == {":3000", ":3001"}

\* Handler: p.buildHandler() and &http.Server{Addr: addr, Handler: ...}: the
\* new object exists before it is stored in p.server.
StartServe(t, addr) ==
    /\ pc[t] = "idle"
    /\ ~buildHandler.panic
    /\ httpServers' = Append(httpServers, [addr |-> addr, state |-> "new"])
    /\ loc' = [loc EXCEPT ![t] = [kind |-> "ls", ref |-> Len(httpServers) + 1,
                                  handler |-> buildHandler.mux]]
    /\ Goto(t, "ls_store")
    /\ UNCHANGED <<middlewares, routes, backends, server, rb, bb, heap, cursor, last, mu, streaks, arrays>>

\* p.server = &http.Server{...}
ServerStore(t) ==
    /\ pc[t] = "ls_store"
    /\ server' = [kind |-> "server", handler |-> loc[t].handler,
                  globals |-> middlewares, routes |-> routes, ref |-> loc[t].ref]
    /\ loc' = [loc EXCEPT ![t] = Nil]
    /\ Goto(t, "ls_call")
    /\ UNCHANGED <<middlewares, routes, backends, rb, bb, heap, cursor, last, mu, httpServers, streaks, arrays>>

\* return p.server.ListenAndServe(): p.server is read again. The call
\* returns ErrServerClosed on a server that was shut down and the error of
\* net.Listen when the address is in use; else the server listens.
ServerListen(t) ==
    /\ pc[t] = "ls_call"
    /\ LET r == server.ref
           inUse == \E i \in 1..Len(httpServers) :
                        /\ httpServers[i].state = "listening"
                        /\ httpServers[i].addr = httpServers[r].addr
       IN  IF httpServers[r].state = "closed" \/ inUse
           THEN /\ Goto(t, "idle")
                /\ UNCHANGED <<httpServers, loc>>
           ELSE /\ httpServers' = [httpServers EXCEPT ![r].state = "listening"]
                /\ loc' = [loc EXCEPT ![t] = [kind |-> "serve", ref |-> r]]
                /\ Goto(t, "ls_serving")
    /\ UNCHANGED <<middlewares, routes, backends, server, rb, bb, heap, cursor, last, mu, streaks, arrays>>

\* Serve returns ErrServerClosed once its server has been shut down.
ServeReturn(t) ==
    /\ pc[t] = "ls_serving"
    /\ httpServers[loc[t].ref].state = "closed"
    /\ loc' = [loc EXCEPT ![t] = Nil]
    /\ Goto(t, "idle")
    /\ UNCHANGED <<middlewares, routes, backends, server, rb, bb, heap, cursor, last, mu, httpServers, streaks, arrays>>

\* Shutdown is called.
StartShutdown(t) ==
    /\ pc[t] = "idle"
    /\ Goto(t, "sd_check")
    /\ UNCHANGED <<middlewares, routes, backends, server, rb, bb, heap, cursor, last, mu, loc, httpServers, streaks, arrays>>

\* if p.server != nil { ... }; return nil
ShutdownCheck(t) ==
    /\ pc[t] = "sd_check"
    /\ IF server = Nil
       THEN /\ last' = [op |-> "Shutdown", panic |-> FALSE, ref |-> 0]
            /\ Goto(t, "idle")
       ELSE /\ Goto(t, "sd_call")
            /\ UNCHANGED last
    /\ UNCHANGED <<middlewares, routes, backends, server, rb, bb, heap, cursor, mu, loc, httpServers, streaks, arrays>>

\* return p.server.Shutdown(ctx): p.server is read again; the server it
\* names stops listening and never listens again.
ShutdownCall(t) ==
    /\ pc[t] = "sd_call"
    /\ httpServers' = [httpServers EXCEPT ![server.ref].state = "closed"]
    /\ last' = [op |-> "Shutdown", panic |-> FALSE, ref |-> server.ref]
    /\ Goto(t, "idle")
    /\ UNCHANGED <<middlewares, routes, backends, server, rb, bb, heap, cursor, mu, loc, streaks, arrays>>

\* A call of Shutdown has returned, now or before the requests accepted
\* since.
ShutdownReturned ==
    \/ last.op = "Shutdown"
    \/ last.op = "Accept" /\ last.afterShutdown

\* A listening server accepts a new request.
Accept(i) ==
    /\ httpServers[i].state = "listening"
    /\ last' = [op |-> "Accept", panic |-> FALSE, ref |-> i,
                afterShutdown |-> ShutdownReturned]
    /\ UNCHANGED <<middlewares, routes, backends, server, rb, bb, heap, cursor, mu, pc, loc, httpServers, streaks, arrays>>

NextShutdown ==
    \/ \E t \in Threads :
          \/ Len(httpServers) < MaxHttpServers /\ \E a \in Addrs : StartServe(t, a)
          \/ ServerStore(t)
          \/ ServerListen(t)
          \/ ServeReturn(t)
          \/ StartShutdown(t)
          \/ ShutdownCheck(t)
          \/ ShutdownCall(t)
    \/ \E i \in 1..Len(httpServers) : Accept(i)

SpecShutdown == Init /\ [][NextShutdown]_vars

----------------------------------------------------------------------------
(* Health reporting: backends built with and without a health check, whose  *)
(* servers change health, asked for their HealthStatus                      *)

NextHealth ==
    \/ ProxyBackend("api")
    \/ bb # Nil /\ Len(bb.servers) < MaxHealthServers
          /\ \E u \in {"http://s1", "s3"} : AddServers(<<u>>)
    \/ WithLoadBalancer(RoundRobin)
    \/ \E interval \in {-1, 0, 5} : WithHealthCheck("/health", interval)
    \/ bb # Nil
          /\ (Len(bb.servers) <= 1 \/ Len(heap) + Len(bb.servers) <= MaxHealthHeap)
          /\ Build
    \/ \E b \in BuiltBackends : HealthStatus(b)
    \/ \E s \in 1..Len(heap) : \E h \in BOOLEAN : SetHealthy(s, h)

SpecHealth == Init /\ [][NextHealth]_vars

----------------------------------------------------------------------------
(* Monitoring: a cluster backend with a health check, one of whose servers  *)
(* may be down, is configured; then the proxy serves requests while         *)
(* health-check intervals pass                                              *)

NextMonitor ==
    \/ server = Nil /\ ProxyBackend("api")
    \/ server = Nil /\ bb # Nil /\ Len(bb.servers) < MaxMonitorServers
          /\ \E u \in {"http://s1", "http://down"} : AddServers(<<u>>)
    \/ server = Nil /\ WithLoadBalancer(RoundRobin)
    \/ server = Nil /\ WithHealthCheck("/health", 5)
    \/ server = Nil /\ bb # Nil /\ Len(heap) + Len(bb.servers) <= MaxMonitorHeap /\ Build
    \/ server = Nil /\ ProxyRoute(PApi)
    \/ server = Nil /\ Len(routes) < MaxBackendRoutes /\ \E b \in BuiltBackends : To(b)
    \/ ListenAndServe
    \/ Request(PApi)
    \/ server # Nil /\ \E s \in 1..Len(heap) : \E ok \in BOOLEAN : HealthCheckDue(s, ok)

SpecMonitor == Init /\ [][NextMonitor]_vars

----------------------------------------------------------------------------
(* Membership: backends are built, routed to, rebuilt from a builder that   *)
(* goes on adding servers (s1, s2, s1, ...), asked for their health and     *)
(* served                                                                   *)

NextMembers ==
    \/ ProxyBackend("api")
    \/ bb # Nil /\ Len(bb.servers) < MaxMemberServers
          /\ AddServers(<<IF Len(bb.servers) % 2 = 0 THEN "http://s1" ELSE "http://s2">>)
    \/ bb # Nil /\ bb.servers # <<>> /\ WithLoadBalancer(RoundRobin)
    \/ bb # Nil
          /\ (Len(bb.servers) <= 1 \/ Len(heap) + Len(bb.servers) <= MaxMemberHeap)
          /\ Build
    \/ ProxyRoute(PApi)
    \/ Len(routes) < MaxBackendRoutes /\ \E b \in BuiltBackends : To(b)
    \/ \E b \in BuiltBackends : HealthStatus(b)
    \/ ListenAndServe
    \/ Request(PApi)

SpecMembers == Init /\ [][NextMembers]_vars

----------------------------------------------------------------------------
(* The route builder at the level of Go slices: rb.middlewares is a slice   *)
(* header over a backing array, and To and ToHandler copy the header, not   *)
(* the elements, into the Route. One route builder finishes several routes  *)
(* while a backend builder builds, is changed and builds again.             *)

NilSlice == [arr |-> 0, len |-> 0, cap |-> 0]

\* The elements a slice header shows of the backing arrays arrs.
SliceViewIn(arrs, h) == IF h.arr = 0 THEN <<>> ELSE SubSeq(arrs[h.arr], 1, h.len)

SliceView(h) == SliceViewIn(arrays, h)

SliceAppendIndexLast(h) == h.len

\* append stores the new element right after the elements the slice shows.
SliceAppendIndex(h) == h.len + 1

\* append(h, x): in place when the capacity allows, else into a new array of
\* twice the capacity (of capacity one for a nil slice).
SliceAppend(h, x) ==
    IF h.len < h.cap
    THEN [slice |-> [h EXCEPT !.len = h.len + 1],
          arrays |-> [arrays EXCEPT ![h.arr][SliceAppendIndex(h)] = x]]
    ELSE LET newcap == IF h.cap = 0 THEN 1 ELSE 2 * h.cap
             copied == [i \in 1..newcap |->
                          IF i <= h.len THEN arrays[h.arr][i]
                          ELSE IF i = SliceAppendIndex(h) THEN x
                          ELSE "zero"]
         IN  [slice |-> [arr |-> Len(arrays) + 1, len |-> h.len + 1, cap |-> newcap],
              arrays |-> Append(arrays, copied)]

\* defaultProxy.Route
SliceRoute(pattern) ==
    /\ rb' = [kind |-> "rb", pattern |-> pattern, middlewares |-> NilSlice]
    /\ last' = Returned("Proxy.Route")
    /\ UNCHANGED <<middlewares, routes, backends, server, bb, heap, cursor, mu, pc, loc, httpServers, streaks, arrays>>

\* defaultRouteBuilder.Use with one middleware
SliceUse(mw) ==
    /\ rb # Nil
    /\ LET a == SliceAppend(rb.middlewares, mw)
       IN  /\ rb' = [rb EXCEPT !.middlewares = a.slice]
           /\ arrays' = a.arrays
    /\ last' = Returned("RouteBuilder.Use")
    /\ UNCHANGED <<middlewares, routes, backends, server, bb, heap, cursor, mu, pc, loc, httpServers, streaks>>

\* defaultRouteBuilder.To and ToHandler: middlewares: rb.middlewares
SliceTo(backend, handler) ==
    /\ rb # Nil
    /\ routes' = Append(routes, NewRoute(backend, handler))
    /\ last' = Returned(IF handler = Nil THEN "To" ELSE "ToHandler")
    /\ UNCHANGED <<middlewares, backends, server, rb, bb, heap, cursor, mu, pc, loc, httpServers, streaks, arrays>>

NextSlices ==
    \/ rb = Nil /\ SliceRoute(PApi)
    \/ rb # Nil /\ rb.middlewares.len < MaxSliceMw
          /\ (rb.middlewares.len < rb.middlewares.cap \/ Len(arrays) < MaxSliceArrays)
          /\ SliceUse(IF rb.middlewares.len % 2 = 0 THEN "C" ELSE "D")
    \/ Len(routes) < MaxSliceRoutes /\ backends = <<>> /\ SliceTo(Nil, CustomHandler("H"))
    \/ Len(routes) < MaxSliceRoutes /\ \E b \in BuiltBackends : SliceTo(b, Nil)
    \/ ProxyBackend("api")
    \/ bb # Nil /\ Len(bb.servers) < MaxSliceServers
          /\ AddServers(<<IF Len(bb.servers) % 2 = 0 THEN "http://s1" ELSE "http://s2">>)
    \/ bb # Nil /\ backends # <<>> /\ bb.loadBalancer = Nil /\ WithLoadBalancer(RoundRobin)
    \/ bb # Nil /\ bb.loadBalancer # Nil /\ bb.healthPath = "" /\ WithHealthCheck("/health", 5)
    \/ bb # Nil
          /\ (Len(bb.servers) <= 1 \/ Len(heap) + Len(bb.servers) <= MaxSliceHeap)
          /\ Build

SpecSlices == Init /\ [][NextSlices]_vars

----------------------------------------------------------------------------
(* Registration going on while the server serves: routes and global         *)
(* middlewares are added before and after ListenAndServe                    *)

NextServed ==
    \/ Len(middlewares) < MaxServedMw /\ ProxyUse(<<"A">>)
    \/ \E p \in {PApi, PUsers} : ProxyRoute(p)
    \/ rb # Nil /\ Len(routes) < MaxServedRoutes /\ To(CustomBackend("X"))
    \/ rb # Nil /\ Len(routes) < MaxServedRoutes /\ ToHandler(CustomHandler("H"))
    \/ rb # Nil /\ Len(routes) < MaxServedRoutes /\ ToURL("http://s1")
    \/ ListenAndServe
    \/ \E path \in {PApi, PUsers} : Request(path)

SpecServed == Init /\ [][NextServed]_vars

----------------------------------------------------------------------------
(* Serving through a cluster: one server answers (s1), the other does not   *)
(* (down); the balancer is round-robin or one whose Select fails            *)

NextServe ==
    \/ backends = <<>> /\ ProxyBackend("api")
    \/ bb # Nil /\ Len(bb.servers) < MaxServeServers
          /\ AddServers(<<IF Len(bb.servers) % 2 = 0 THEN "http://s1" ELSE "http://down">>)
    \/ bb # Nil /\ \E lb \in {RoundRobin, FailingBalancer} : WithLoadBalancer(lb)
    \/ bb # Nil
          /\ (Len(bb.servers) <= 1 \/ Len(heap) + Len(bb.servers) <= MaxServeHeap)
          /\ Build
    \/ ProxyRoute(PApi)
    \/ Len(routes) < MaxBackendRoutes /\ \E b \in BuiltBackends : To(b)
    \/ ListenAndServe
    \/ Request(PApi)

SpecServe == Init /\ [][NextServe]_vars

----------------------------------------------------------------------------
(* Registration alone: every builder call of the route and the backend      *)
(* builder, nil targets and a URL that does not parse included             *)

NextFrame ==
    \/ Len(middlewares) < MaxFrameMw /\ ProxyUse(<<"A">>)
    \/ rb = Nil /\ ProxyRoute(PApi)
    \/ rb # Nil /\ Len(rb.middlewares) < MaxFrameMw /\ RouteBuilderUse(<<"C">>)
    \/ Len(routes) < MaxFrameRoutes /\ \E b \in BuiltBackends \cup {Nil} : To(b)
    \/ Len(routes) < MaxFrameRoutes /\ \E h \in {CustomHandler("H"), Nil} : ToHandler(h)
    \/ Len(routes) < MaxFrameRoutes /\ \E u \in {"http://s1", ":bad"} : ToURL(u)
    \/ bb = Nil /\ ProxyBackend("api")
    \/ bb # Nil /\ Len(bb.servers) < MaxFrameServers
          /\ AddServers(<<IF Len(bb.servers) % 2 = 0 THEN "http://s1" ELSE "http://s2">>)
    \/ bb # Nil /\ bb.servers # <<>> /\ bb.loadBalancer = Nil /\ WithLoadBalancer(RoundRobin)
    \/ bb # Nil /\ bb.loadBalancer # Nil /\ bb.healthPath = "" /\ WithHealthCheck("/health", 5)
    \/ bb # Nil
          /\ (Len(bb.servers) <= 1 \/ Len(heap) + Len(bb.servers) <= MaxFrameHeap)
          /\ Build

SpecFrame == Init /\ [][NextFrame]_vars

----------------------------------------------------------------------------
(* The backend registry: two names are built and built again, from builders *)
(* that go on adding servers, and the backends built are routed to          *)

NextRegistry ==
    \/ \E name \in {"api", "web"} : ProxyBackend(name)
    \/ bb # Nil /\ Len(bb.servers) < MaxRegistryServers
          /\ AddServers(<<IF Len(bb.servers) % 2 = 0 THEN "http://s1" ELSE "http://s2">>)
    \/ bb # Nil /\ bb.servers # <<>> /\ bb.loadBalancer = Nil /\ WithLoadBalancer(RoundRobin)
    \/ bb # Nil
          /\ (Len(bb.servers) <= 1 \/ Len(heap) + Len(bb.servers) <= MaxRegistryHeap)
          /\ Build
    \/ rb = Nil /\ ProxyRoute(PApi)
    \/ Len(routes) < MaxBackendRoutes /\ \E b \in BuiltBackends : To(b)

SpecRegistry == Init /\ [][NextRegistry]_vars

----------------------------------------------------------------------------
(* Properties *)

IsRequest == last.op = "Request"

\* The routes and patterns the running server was built from.
ServedPatterns == {server.routes[i].pattern : i \in 1..Len(server.routes)}

\* A pattern matches a path when it equals it or, ending in "/", is a
\* prefix of it.
PatternMatches(pattern, path) ==
    pattern = path \/ (EndsWithSlash(pattern) /\ HasPrefix(path, pattern))

ServedMatching(path) ==
    {i \in 1..Len(server.routes) : PatternMatches(server.routes[i].pattern, path)}

LongestMatching(path) ==
    CHOOSE i \in ServedMatching(path) : \A j \in ServedMatching(path) :
        StrLen(server.routes[j].pattern) <= StrLen(server.routes[i].pattern)

\* The last request was dispatched to served route i and reached its target.
ServedBy(i) ==
    /\ last.kind = "route"
    /\ last.pattern = server.routes[i].pattern
    /\ \E k \in 1..Len(last.events) :
          last.events[k] = Ev("target", TargetId(RouteTarget(server.routes[i])))

\* The path is not served itself but the path followed by "/" is.
SlashRedirectCase(path) ==
    /\ ~EndsWithSlash(path)
    /\ path \notin ServedPatterns
    /\ (path \o <<"/">>) \in ServedPatterns

\* C1: a request served by a route enters the global middlewares in Use
\* order, then the route's middlewares in Use order, reaches the target, and
\* leaves the middlewares in exactly the reverse order.
C1_MiddlewareOrder ==
    (IsRequest /\ last.kind = "route") =>
        LET r == server.routes[CHOOSE i \in 1..Len(server.routes) :
                                  server.routes[i].pattern = last.pattern]
            order == server.globals \o r.middlewares
            n == Len(order)
        IN  /\ Len(last.events) = 2 * n + 1
            /\ \A i \in 1..n : last.events[i] = Ev("enter", order[i])
            /\ last.events[n + 1].ev = "target"
            /\ \A i \in 1..n : last.events[n + 1 + i] = Ev("exit", order[n + 1 - i])

C1_Witness ==
    /\ IsRequest
    /\ server.globals = <<"A", "B">>
    /\ last.events = <<Ev("enter", "A"), Ev("enter", "B"), Ev("enter", "C"),
                       Ev("enter", "D"), Ev("target", "H"), Ev("exit", "D"),
                       Ev("exit", "C"), Ev("exit", "B"), Ev("exit", "A")>>

C3_PrefixMatch ==
    IsRequest =>
        /\ (\E i \in 1..Len(server.routes) : HasPrefix(last.path, server.routes[i].pattern))
              => last.status # 404
        /\ ( /\ Len(server.routes) = 2
             /\ server.routes[1].pattern = PApi
             /\ server.routes[1].backend = CustomBackend("X")
             /\ server.routes[2].pattern = PUsers
             /\ server.routes[2].backend = CustomBackend("Y") )
              => /\ last.path = PUser123 => ServedBy(2)
                 /\ last.path = PStatus => ServedBy(1)

\* C4: the route table never holds two routes with the same pattern.
C4_UniquePatterns ==
    \A i, j \in 1..Len(routes) : i # j => routes[i].pattern # routes[j].pattern

AllUnhealthy(b) == \A i \in 1..Len(b.servers) : ~heap[b.servers[i]].Healthy

\* C5: LoadBalancer.Select is handed only servers whose Healthy flag is
\* true, and no unhealthy server is forwarded to while a healthy one exists.
C5_OnlyHealthySelected ==
    (IsRequest /\ last.target.kind = "cluster") =>
        /\ \A i \in 1..Len(last.candidates) : heap[last.candidates[i]].Healthy
        /\ (last.selected # 0 /\ ~AllUnhealthy(last.target))
              => heap[last.selected].Healthy

\* C6: a request to a cluster backend all of whose servers are unhealthy is
\* answered with 503 and forwarded to no server.
C6_NoHealthyServer ==
    (IsRequest /\ last.target.kind = "cluster" /\ AllUnhealthy(last.target)) =>
        /\ ~last.panic
        /\ last.status = 503
        /\ last.selected = 0

C9_DefaultRoundRobin ==
    (IsRequest /\ last.target.kind = "cluster" /\ last.target.loadBalancer = Nil) =>
        /\ ~last.panic
        /\ \E i \in 1..Len(last.target.servers) : last.selected = last.target.servers[i]

WritePcs == {"to_append", "use_append", "build_store"}
ReadPcs == {"bh_range", "bh_loop", "bh_runlock"}

\* C7: a goroutine writes routes, middlewares or backends only while it holds
\* the exclusive lock, buildHandler reads them only while it holds the
\* shared lock with no writer inside, the routes it ranges over are routes
\* of the registry, and the handler it returns is the one of the registry as
\* it stands: no registration took effect halfway through the loop.
C7_LockDiscipline ==
    \A t \in Threads :
        /\ pc[t] \in WritePcs => (mu.w = t /\ mu.r = {})
        /\ pc[t] \in ReadPcs => (t \in mu.r /\ mu.w = "none")
        /\ pc[t] \in {"bh_loop", "bh_runlock"} =>
              /\ loc[t].rs = routes
              /\ loc[t].globals = middlewares
        /\ (pc[t] = "bh_runlock" /\ ~loc[t].panic) =>
              loc[t].mux = BuildFrom(NewServeMux, routes, middlewares, 1).mux

\* buildHandler is inside its loop over a non-empty route list while the
\* other goroutine waits in To for the lock.
C7_Witness ==
    /\ pc["g1"] = "bh_loop"
    /\ loc["g1"].i = 2
    /\ pc["g2"] = "to_lock"

\* The middlewares of a chain, from the outermost to the innermost.
RECURSIVE ChainMws(_)
ChainMws(h) == IF h.kind = "mw" THEN <<h.mw>> \o ChainMws(h.next) ELSE <<>>

\* C11: the handler ListenAndServe builds wraps every registered route, in
\* whatever order routes and global middlewares were registered, with all
\* global middlewares added so far, outside the route's own middlewares.
C11_GlobalsWrapEveryRoute ==
    [][ (last'.op = "ListenAndServe" /\ ~last'.panic) =>
            \A i \in 1..Len(routes) :
                ChainMws(server'.handler.m[routes[i].pattern].h)
                    = middlewares \o routes[i].middlewares ]_vars

\* A request is served by the first of two routes through a middleware that
\* was handed to Use only after that route had been registered.
C11_Witness ==
    /\ IsRequest
    /\ Len(server.routes) = 2
    /\ last.pattern = server.routes[1].pattern
    /\ \E k \in 1..Len(last.events) : last.events[k] = Ev("enter", "B")
    /\ last.status = 200

\* C12: once a call of Shutdown has returned, no server of the proxy accepts
\* a new request, however Shutdown and the calls of ListenAndServe interleave.
C12_NoAcceptAfterShutdown ==
    ~(last.op = "Accept" /\ last.afterShutdown)

\* C13: a request whose handler panics is answered with 500 and the panic
\* does not leave the handler ListenAndServe built.
C13_PanicBecomes500 ==
    (IsRequest /\ last.target.kind = "panicking") =>
        /\ ~last.panic
        /\ last.status = 500

IsHealthStatus == last.op = "HealthStatus"

\* C14: HealthStatus of a simple backend is a map with exactly one entry,
\* under the string of the backend's URL, that is healthy and has no error.
C14_SimpleAlwaysHealthy ==
    (IsHealthStatus /\ last.backend.kind = "simple") =>
        /\ DOMAIN last.status = {UrlString(last.backend.url)}
        /\ \A k \in DOMAIN last.status :
              last.status[k].Healthy /\ last.status[k].Error = Nil

\* HealthStatus was asked of a simple backend whose URL has no scheme, built
\* by a builder with a load balancer and a health check.
C14_Witness ==
    /\ IsHealthStatus
    /\ last.backend.kind = "simple"
    /\ DOMAIN last.status = {"s3"}
    /\ heap # <<>>
    /\ bb.loadBalancer # Nil

\* C15: HealthStatus of a cluster backend has as many entries as the backend
\* has servers, and the entry under a server's URL string carries that
\* server's Healthy flag.
C15_OneEntryPerServer ==
    (IsHealthStatus /\ last.backend.kind = "cluster") =>
        LET b == last.backend
        IN  /\ Cardinality(DOMAIN last.status) = Len(b.servers)
            /\ \A i \in 1..Len(b.servers) :
                  /\ UrlString(heap[b.servers[i]].URL) \in DOMAIN last.status
                  /\ last.status[UrlString(heap[b.servers[i]].URL)].Healthy
                        = heap[b.servers[i]].Healthy

\* C16: a Build by a builder whose health check has an interval of zero or
\* less panics and leaves the backend registry as it was.
C16_BadIntervalRejected ==
    [][ (last'.op = "Build" /\ bb.healthPath # "" /\ bb.healthInterval <= 0)
            => (last'.panic /\ backends' = backends) ]_vars

\* C17: a server of a backend with a health check that did not answer the
\* check at FailureThreshold intervals in a row is unhealthy.
C17_UnhealthyAfterFailedProbes ==
    \A s \in DOMAIN streaks :
        streaks[s].active >= FailureThreshold => ~heap[s].Healthy

\* C18: a server to which FailureThreshold forwardings in a row have failed
\* is unhealthy, and no further request is forwarded to it.
C18_PassiveFailuresMarkUnhealthy ==
    \A s \in DOMAIN streaks :
        /\ streaks[s].passive >= FailureThreshold => ~heap[s].Healthy
        /\ streaks[s].passive <= FailureThreshold

\* C19: a Build that returns, returns and registers a simple backend made of
\* the builder's name and its one parsed URL and of nothing else when the
\* builder has one server, and a cluster backend with one server per URL
\* when it has two or more.
C19_SimpleOrCluster ==
    (last.op = "Build" /\ ~last.panic) =>
        /\ backends[bb.name] = last.backend
        /\ IF Len(bb.servers) = 1
           THEN last.backend = [kind |-> "simple", name |-> bb.name,
                                url |-> UrlParse(bb.servers[1]).url]
           ELSE /\ Len(bb.servers) >= 2
                /\ last.backend.kind = "cluster"
                /\ Len(last.backend.servers) = Len(bb.servers)

\* A builder with one server, a load balancer and a health check has built.
C19_Witness ==
    /\ last.op = "Build"
    /\ ~last.panic
    /\ Len(bb.servers) = 1
    /\ bb.loadBalancer = RoundRobin
    /\ bb.healthPath = "/health"
    /\ last.backend.kind = "simple"

\* The backends the proxy holds: in its registry, in its routes and in the
\* routes of the running server.
KnownBackends ==
    BuiltBackends
        \cup {routes[i].backend : i \in 1..Len(routes)}
        \cup (IF server = Nil THEN {}
              ELSE {server.routes[i].backend : i \in 1..Len(server.routes)})

\* The URLs of the servers of a cluster backend, in the order of its list.
ServerURLs(b) == [i \in 1..Len(b.servers) |-> heap[b.servers[i]].URL]

\* C20: a backend Build returns is a simple backend, of one server, or a
\* cluster backend with at least one server whose servers are, in length and
\* order, the URLs the builder holds at that Build; and no step changes the
\* servers of a cluster backend the proxy holds.
C20_ServersFixed ==
    [][ /\ (last'.op = "Build" /\ ~last'.panic) =>
              \/ last'.backend.kind = "simple"
              \/ /\ last'.backend.kind = "cluster"
                 /\ Len(last'.backend.servers) >= 1
                 /\ [i \in 1..Len(last'.backend.servers) |->
                        heap'[last'.backend.servers[i]].URL]
                      = [i \in 1..Len(bb.servers) |-> UrlParse(bb.servers[i]).url]
        /\ \A b \in KnownBackends :
              b.kind = "cluster" =>
                  [i \in 1..Len(b.servers) |-> heap'[b.servers[i]].URL] = ServerURLs(b)
      ]_vars

\* A request is served by a cluster backend of s1 and s2 that a route holds,
\* after its builder has added a third server and built again: the registry
\* holds another cluster backend, of three servers.
C20_Witness ==
    /\ IsRequest
    /\ last.target.kind = "cluster"
    /\ last.selected # 0
    /\ Len(last.target.servers) = 2
    /\ UrlString(ServerURLs(last.target)[1]) = "http://s1"
    /\ UrlString(ServerURLs(last.target)[2]) = "http://s2"
    /\ backends["api"].kind = "cluster"
    /\ Len(backends["api"].servers) = 3
    /\ Len(bb.servers) = 3

\* C21: no call on a builder changes a route or a backend that was built
\* before: every registered route keeps its pattern, its backend, its
\* handler and the middlewares its slice shows, and every server of a built
\* backend stays as it is.
C21_BuiltIsFinal ==
    [][ /\ \A i \in 1..Len(routes) :
              /\ routes'[i].pattern = routes[i].pattern
              /\ routes'[i].backend = routes[i].backend
              /\ routes'[i].handler = routes[i].handler
              /\ SliceViewIn(arrays', routes'[i].middlewares) = SliceView(routes[i].middlewares)
        /\ \A k \in 1..Len(heap) : heap'[k] = heap[k]
      ]_vars

\* The builder of a registered route has appended a middleware in place:
\* builder and route share a backing array and the builder shows more of it;
\* the route's backend is a cluster backend whose builder has since been
\* given a health check.
C21_Witness ==
    /\ routes # <<>>
    /\ rb.middlewares.arr = routes[1].middlewares.arr
    /\ rb.middlewares.arr # 0
    /\ rb.middlewares.len > routes[1].middlewares.len
    /\ routes[1].backend.kind = "cluster"
    /\ routes[1].backend.healthCheck = Nil
    /\ bb.healthPath = "/health"

RegistrationOps == {"Proxy.Use", "Proxy.Route", "RouteBuilder.Use", "To", "ToHandler", "ToURL"}

\* The served routes whose pattern is the path.
ServedExactly(path) == {i \in 1..Len(server.routes) : server.routes[i].pattern = path}

\* C22: a registration call leaves the running server and its handler as
\* they are, and every request is dispatched over the routes and through the
\* global middlewares that were registered when ListenAndServe built the
\* handler: a path registered since is not served, a middleware added since
\* is not entered.
C22_ServedHandlerFixed ==
    /\ [][ (server # Nil /\ last'.op \in RegistrationOps) => server' = server ]_vars
    /\ [](IsRequest =>
            IF ServedExactly(last.path) = {} THEN last.kind = "notfound"
            ELSE \E i \in ServedExactly(last.path) :
                    LET order == server.globals \o server.routes[i].middlewares
                    IN  /\ last.kind = "route"
                        /\ last.target = RouteTarget(server.routes[i])
                        /\ Len(last.events) = 2 * Len(order) + 1
                        /\ \A k \in 1..Len(order) : last.events[k] = Ev("enter", order[k]))

\* A request for a path whose route was registered after ListenAndServe is
\* answered 404 while the server serves another route without the global
\* middleware added since.
C22_Witness ==
    /\ IsRequest
    /\ last.kind = "notfound"
    /\ \E i \in 1..Len(routes) : routes[i].pattern = last.path
    /\ Len(server.routes) = 1
    /\ server.globals = <<>>
    /\ middlewares = <<"A">>

\* C23: a request served by a cluster backend calls Select at most once and
\* is forwarded to at most one server; when Select returned an error the
\* answer is 503 and nothing was forwarded, and otherwise the one forward went
\* to the selected server and its answer, a 502 of a server that is down
\* included, is the answer of the call.
C23_OneSelectOneForward ==
    (IsRequest /\ last.kind = "route" /\ last.target.kind = "cluster") =>
        /\ last.selects <= 1
        /\ Len(last.forwards) <= 1
        /\ last.selectErr => (last.status = 503 /\ last.forwards = <<>> /\ ~last.panic)
        /\ (last.selects = 1 /\ ~last.selectErr) =>
              /\ last.forwards = <<last.selected>>
              /\ last.status = ForwardStatus(heap[last.selected].URL)

\* The selected server is down and the call answered 502 after its one
\* forward, although another server of the cluster would have answered.
C23_Witness ==
    /\ IsRequest
    /\ last.kind = "route"
    /\ last.target.kind = "cluster"
    /\ last.status = 502
    /\ Len(last.forwards) = 1
    /\ \E i \in 1..Len(last.target.servers) :
          ForwardStatus(heap[last.target.servers[i]].URL) = 200

C23_SelectFailed ==
    /\ IsRequest
    /\ last.kind = "route"
    /\ last.target.kind = "cluster"
    /\ last.selectErr
    /\ last.status = 503

C25_LastBuildWins ==
    [][ IF last'.op = "Build" /\ ~last'.panic
        THEN /\ DOMAIN backends' = DOMAIN backends \cup {bb.name}
             /\ backends'[bb.name] = last'.backend
             /\ \A n \in DOMAIN backends \ {bb.name} : backends'[n] = backends[n]
        ELSE backends' = backends ]_vars

\* The name "api" was built as a simple backend and routed to, and a second
\* Build of the name has put a cluster in its place, beside the name "web".
C25_Witness ==
    /\ last.op = "Build"
    /\ ~last.panic
    /\ last.backend.kind = "cluster"
    /\ backends[last.backend.name] = last.backend
    /\ Cardinality(DOMAIN backends) = 2
    /\ \E i \in 1..Len(routes) :
          /\ routes[i].backend # Nil
          /\ routes[i].backend.kind = "simple"
          /\ routes[i].backend.name = last.backend.name

\* C26: every registered route has exactly one dispatch target, a backend or
\* a handler, whatever the registration calls were given.
C26_ExactlyOneTarget ==
    \A i \in 1..Len(routes) : (routes[i].backend = Nil) # (routes[i].handler = Nil)

FrameOps == {"Proxy.Route", "Proxy.Backend", "RouteBuilder.Use", "AddServers",
             "WithLoadBalancer", "WithHealthCheck"}

\* C27: Proxy.Route, Proxy.Backend, RouteBuilder.Use, AddServers,
\* WithLoadBalancer and WithHealthCheck leave routes, global middlewares and
\* the backend registry unchanged; To and ToHandler append one route, of the
\* builder's pattern and middlewares, at the end of the route list and change
\* nothing else; Proxy.Use changes the global middleware list only.
C27_BuilderFrames ==
    [][ /\ last'.op \in FrameOps => UNCHANGED <<routes, middlewares, backends>>
        /\ last'.op \in {"To", "ToHandler"} =>
              /\ Len(routes') = Len(routes) + 1
              /\ SubSeq(routes', 1, Len(routes)) = routes
              /\ routes'[Len(routes')].pattern = rb.pattern
              /\ routes'[Len(routes')].middlewares = rb.middlewares
              /\ UNCHANGED <<middlewares, backends, server, rb, bb, heap>>
        /\ last'.op = "Proxy.Use" =>
              /\ middlewares' # middlewares
              /\ UNCHANGED <<routes, backends, server, rb, bb, heap>> ]_vars

\* A route was appended behind an earlier one while a global middleware and
\* a registered backend were there to be left alone.
C27_Witness ==
    /\ last.op \in {"To", "ToHandler"}
    /\ Len(routes) = 2
    /\ middlewares # <<>>
    /\ backends # <<>>
    /\ rb.middlewares # <<>>
    /\ bb # Nil

\* C28: a ToURL that returns appends one route whose target is a simple
\* backend for the parsed URL, and a ToURL that panics appends none; either
\* way the backend registry, its names included, is as it was before.
C28_ToURLNotRegistered ==
    [][ last'.op = "ToURL" =>
          /\ backends' = backends
          /\ DOMAIN backends' = DOMAIN backends
          /\ IF last'.panic THEN routes' = routes
             ELSE /\ Len(routes') = Len(routes) + 1
                  /\ SubSeq(routes', 1, Len(routes)) = routes
                  /\ routes'[Len(routes')].handler = Nil
                  /\ routes'[Len(routes')].backend =
                        SimpleBackend("", UrlParse(last'.url).url)
                  /\ routes'[Len(routes')].backend \notin BuiltBackends' ]_vars

\* ToURL has registered a route to a backend that no name of the non-empty
\* registry holds.
C28_Witness ==
    /\ last.op = "ToURL"
    /\ ~last.panic
    /\ backends # <<>>
    /\ routes[Len(routes)].backend.kind = "simple"
    /\ routes[Len(routes)].backend \notin BuiltBackends

====
